---- MODULE Spec2Model ----
(***************************************************************************)
(* cargo-deps: the pipeline of main.rs (execute) and project.rs            *)
(* (Project::graph, parse_root_deps, parse_lock_file, parse_package).      *)
(* The manifest and the lock document are inputs; the dependency graph     *)
(* `dg` is built by the lock-file walk, then sorted, kind-resolved,        *)
(* duplicate-marked and rendered.                                          *)
(***************************************************************************)
EXTENDS Naturals, Sequences, FiniteSets, TLC

VARIABLES
    pc,             \* position in execute / Project::graph
    err,            \* the error (or panic) the invocation ended with, "" if none
    cfg,            \* Config, immutable
    manifest_toml,  \* the manifest document parse_root_deps loaded (its local)
    root_crates,    \* Vec<RootCrate> returned by parse_root_deps
    root_deps_map,  \* RootDepsMap: root name -> dep name -> Vec<DepKind>
    nodes,          \* dg.nodes: sequence of [name, ver]; a node's id is its index
    edges,          \* dg.edges: set of <<parent id, child id>>
    last,           \* the latest parse_package call: its name, ver and id, and whether
                    \* (and how long) a dependencies array the entry carried
    npkgs,          \* entries of the lock file's package array walked so far
    entries,        \* (name, version) of the lock entries handed to parse_package so far
    order,          \* the node order topological_sort produced
    kinds,          \* resolved kind list per edge (set_resolved_kind)
    duplicate,      \* ids of the nodes marked by show_version_on_duplicates
    log,            \* the pipeline stages that have completed, in order
    out             \* the output sink: [created, rendered]

vars == <<pc, err, cfg, manifest_toml, root_crates, root_deps_map, nodes, edges,
          last, npkgs, entries, order, kinds, duplicate, log, out>>

-----------------------------------------------------------------------------
(* Bounds of the inputs *)

MaxPkgs == 1        \* entries in the lock file's package array
MaxDeps == 1        \* strings in one entry's dependencies array

RootName == "a"
Names == {"a", "b", "c"}
DepNames == {"b", "c"}
Vers == {"1", "2"}
NoField == "<none>"

\* the (name, version) pairs lock entries are drawn from
Crates == {<<"a", "1">>, <<"a", "2">>, <<"b", "1">>}

\* a dependency string, as the tokens split(' ') yields: "<name> <version>", the
\* same followed by a source, and the empty string, which
\* `dep.as_str().unwrap_or("")` gives for a non-string
DepStrings ==
    {<<c[1], c[2]>> : c \in {<<"a", "1">>, <<"b", "1">>, <<"c", "1">>}}
        \cup {<<"b", "1", "(registry)">>, <<"">>}

SeqsUpTo(S, n) == UNION {[1..k -> S] : k \in 0..n}

\* a [[package]] / [root] table of the lock file
PkgEntries ==
    {[name |-> c[1], version |-> c[2], dependencies |-> d] :
        c \in Crates,
        d \in {[present |-> FALSE, items |-> <<>>]}
                \cup {[present |-> TRUE, items |-> s] : s \in SeqsUpTo(DepStrings, MaxDeps)}}
    \cup {[name |-> NoField, version |-> "1",
           dependencies |-> [present |-> FALSE, items |-> <<>>]]}

Filters ==
    {[some |-> FALSE, names |-> {}]}
        \cup {[some |-> TRUE, names |-> s] : s \in {{"a"}, {"a", "b"}, {"b"}}}

ManifestPaths == {<<"Cargo.toml">>, <<"Cargo.lock">>, <<"..">>}

Configs ==
    [manifest_path : ManifestPaths,
     regular_deps : BOOLEAN, build_deps : BOOLEAN,
     dev_deps : BOOLEAN, optional_deps : BOOLEAN,
     filter : Filters, include_vers : BOOLEAN, dot_file : BOOLEAN]

\* a manifest table: absent, or the dep names it lists; `optional` are the entries
\* of [dependencies] whose own table carries optional = true
Tables(S) ==
    {[present |-> FALSE, entries |-> {}, optional |-> {}]}
        \cup {[present |-> TRUE, entries |-> s, optional |-> o] :
                s \in SUBSET S, o \in SUBSET S}

WellFormed(t) == t.optional \subseteq t.entries

\* the manifest documents; `loaded` FALSE is a file toml_from_file cannot load,
\* `package` is the shape of the [package] entry
Manifests ==
    {m \in [loaded : BOOLEAN,
            package : {"absent", "not_table", "no_fields", "ok"},
            name : {RootName}, version : Vers,
            dependencies : {t \in Tables(DepNames) : WellFormed(t)},
            build_dependencies : {t \in Tables({"b"}) : t.optional = {}},
            dev_dependencies : {t \in Tables({"c"}) : t.optional = {}}] :
        /\ (~m.loaded) => (m.package = "absent")
        /\ (m.package # "ok") =>
              /\ m.version = "1"
              /\ ~m.dependencies.present
              /\ ~m.build_dependencies.present
              /\ ~m.dev_dependencies.present}

NoManifest ==
    [loaded |-> FALSE, package |-> "absent", name |-> RootName, version |-> "1",
     dependencies |-> [present |-> FALSE, entries |-> {}, optional |-> {}],
     build_dependencies |-> [present |-> FALSE, entries |-> {}, optional |-> {}],
     dev_dependencies |-> [present |-> FALSE, entries |-> {}, optional |-> {}]]

-----------------------------------------------------------------------------
(* Project::parse_root_deps *)

\* DeclaredKinds without the test of cfg.optional_deps on line 87
DeclaredKindsOptionalKept(c, m, d) ==
    (IF m.dependencies.present /\ d \in m.dependencies.entries
     THEN IF d \in m.dependencies.optional
          THEN <<"Optional">>
          ELSE (IF c.regular_deps THEN <<"Regular">> ELSE <<>>)
     ELSE <<>>)
    \o (IF c.build_deps /\ m.build_dependencies.present
                        /\ d \in m.build_dependencies.entries
        THEN <<"Build">> ELSE <<>>)
    \o (IF c.dev_deps /\ m.dev_dependencies.present
                      /\ d \in m.dev_dependencies.entries
        THEN <<"Dev">> ELSE <<>>)

\* the kinds add_kind pushes for dep name d, in the order of the three loops
DeclaredKinds(c, m, d) ==
    (IF m.dependencies.present /\ d \in m.dependencies.entries
     THEN IF d \in m.dependencies.optional
          THEN (IF c.optional_deps THEN <<"Optional">> ELSE <<>>)
          ELSE (IF c.regular_deps THEN <<"Regular">> ELSE <<>>)
     ELSE <<>>)
    \o (IF c.build_deps /\ m.build_dependencies.present
                        /\ d \in m.build_dependencies.entries
        THEN <<"Build">> ELSE <<>>)
    \o (IF c.dev_deps /\ m.dev_dependencies.present
                      /\ d \in m.dev_dependencies.entries
        THEN <<"Dev">> ELSE <<>>)

\* add_kind creates a dep's entry on its first push: a dep no loop pushes for has none
DepKindsMap(c, m) ==
    [d \in {x \in Names : DeclaredKinds(c, m, x) # <<>>} |-> DeclaredKinds(c, m, d)]

RootDepsError(m) ==
    IF ~m.loaded THEN "io: manifest"
    ELSE IF m.package = "absent" THEN "No [package] table found"
    ELSE IF m.package = "not_table" THEN "Could not parse [package] as a table"
    ELSE IF m.package = "no_fields" THEN "No 'name' or 'version' fields in [package] table"
    ELSE ""

parse_root_deps(c, m) ==
    IF RootDepsError(m) # ""
    THEN [error |-> RootDepsError(m), root_crates |-> <<>>, root_deps_map |-> <<>>]
    ELSE [error |-> "",
          root_crates |-> <<[name |-> m.name, ver |-> m.version]>>,
          root_deps_map |-> [r \in {m.name} |-> DepKindsMap(c, m)]]

-----------------------------------------------------------------------------
(* DepGraph: find, find_or_add, add_child. The graph module is not among the   *)
(* sources at hand; its operations follow their documented contract.         *)

\* find: the id of the node with this exact (name, version), 0 for None
Find(ns, name, ver) ==
    IF \E i \in 1..Len(ns) : ns[i].name = name /\ ns[i].ver = ver
    THEN CHOOSE i \in 1..Len(ns) : ns[i].name = name /\ ns[i].ver = ver
    ELSE 0

\* FindOrAdd without the lookup: every call allocates a node
FindOrAddNoLookup(ns, name, ver) ==
    [nodes |-> Append(ns, [name |-> name, ver |-> ver]), id |-> Len(ns) + 1]

FindOrAdd(ns, name, ver) ==
    IF Find(ns, name, ver) # 0
    THEN [nodes |-> ns, id |-> Find(ns, name, ver)]
    ELSE [nodes |-> Append(ns, [name |-> name, ver |-> ver]), id |-> Len(ns) + 1]

AddChild(g, parent, dep_name, dep_ver) ==
    LET r == FindOrAdd(g.nodes, dep_name, dep_ver)
    IN  [nodes |-> r.nodes, edges |-> g.edges \cup {<<parent, r.id>>}]

-----------------------------------------------------------------------------
(* parse_package *)

\* Filtered with the --filter test left out
FilteredNever(filter, name) == FALSE

\* lines 195-202 and 226-230: --filter was given and does not name this crate
Filtered(filter, name) == filter.some /\ name \notin filter.names

\* Undeclared with the test of the root's declared-kinds map left out
UndeclaredNever(rdm, name, dep_name) == FALSE

\* line 232-237: a root's dep that the root's declared-kinds map does not hold is skipped
Undeclared(rdm, name, dep_name) ==
    name \in DOMAIN rdm /\ dep_name \notin DOMAIN rdm[name]

\* the loop over the dependencies array, from its i-th string on
RECURSIVE AddDeps(_, _, _, _, _, _, _)
AddDeps(g, id, name, deps, i, filter, rdm) ==
    IF i > Len(deps) THEN [nodes |-> g.nodes, edges |-> g.edges, result |-> "ok"]
    ELSE IF Len(deps[i]) < 2
         THEN [nodes |-> g.nodes, edges |-> g.edges, result |-> "panic"]
    ELSE IF Filtered(filter, deps[i][1]) \/ Undeclared(rdm, name, deps[i][1])
         THEN AddDeps(g, id, name, deps, i + 1, filter, rdm)
    ELSE AddDeps(AddChild(g, id, deps[i][1], deps[i][2]), id, name, deps, i + 1,
                 filter, rdm)

VersionMismatch(rdm, rcs, name, ver) ==
    /\ name \in DOMAIN rdm
    /\ ~\E k \in 1..Len(rcs) : rcs[k].name = name /\ rcs[k].ver = ver

\* parse_package demanding the dependencies array as it demands name and version
parse_package_deps_expected(g, pkg, rcs, rdm, filter) ==
    IF pkg.name = NoField \/ pkg.version = NoField
    THEN [nodes |-> g.nodes, edges |-> g.edges, result |-> "panic", id |-> 0]
    ELSE IF Filtered(filter, pkg.name)
    THEN [nodes |-> g.nodes, edges |-> g.edges, result |-> "ok", id |-> 0]
    ELSE LET r == FindOrAdd(g.nodes, pkg.name, pkg.version)
             g1 == [nodes |-> r.nodes, edges |-> g.edges]
         IN  IF VersionMismatch(rdm, rcs, pkg.name, pkg.version)
             THEN [nodes |-> g1.nodes, edges |-> g1.edges, result |-> "mismatch",
                   id |-> r.id]
             ELSE IF ~pkg.dependencies.present
             THEN [nodes |-> g1.nodes, edges |-> g1.edges, result |-> "panic",
                   id |-> r.id]
             ELSE LET d == AddDeps(g1, r.id, pkg.name, pkg.dependencies.items, 1,
                                   filter, rdm)
                  IN  [nodes |-> d.nodes, edges |-> d.edges, result |-> d.result,
                       id |-> r.id]

parse_package(g, pkg, rcs, rdm, filter) ==
    IF pkg.name = NoField \/ pkg.version = NoField
    THEN [nodes |-> g.nodes, edges |-> g.edges, result |-> "panic", id |-> 0]
    ELSE IF Filtered(filter, pkg.name)
    THEN [nodes |-> g.nodes, edges |-> g.edges, result |-> "ok", id |-> 0]
    ELSE LET r == FindOrAdd(g.nodes, pkg.name, pkg.version)
             g1 == [nodes |-> r.nodes, edges |-> g.edges]
         IN  IF VersionMismatch(rdm, rcs, pkg.name, pkg.version)
             THEN [nodes |-> g1.nodes, edges |-> g1.edges, result |-> "mismatch",
                   id |-> r.id]
             ELSE IF ~pkg.dependencies.present
             THEN [nodes |-> g1.nodes, edges |-> g1.edges, result |-> "ok", id |-> r.id]
             ELSE LET d == AddDeps(g1, r.id, pkg.name, pkg.dependencies.items, 1,
                                   filter, rdm)
                  IN  [nodes |-> d.nodes, edges |-> d.edges, result |-> d.result,
                       id |-> r.id]

-----------------------------------------------------------------------------
(* DepGraph: topological_sort, set_resolved_kind, show_version_on_duplicates, *)
(* after their documented contract as well                                   *)

RECURSIVE Ascending(_)
Ascending(S) ==
    IF S = {} THEN <<>>
    ELSE LET m == CHOOSE x \in S : \A y \in S : x <= y
         IN  <<m>> \o Ascending(S \ {m})

Children(E, v) == {e[2] : e \in {x \in E : x[1] = v}}

\* depth-first traversal with the colouring unvisited / in_progress / done; meeting
\* an in_progress node is a cycle. A finished node goes to the front of the order,
\* so that dependents come before their dependencies.
RECURSIVE Visit(_, _, _)
RECURSIVE VisitAll(_, _, _)
Visit(E, v, st) ==
    IF st.cycle \/ st.color[v] = "done" THEN st
    ELSE IF st.color[v] = "in_progress" THEN [st EXCEPT !.cycle = TRUE]
    ELSE LET s1 == VisitAll(E, Ascending(Children(E, v)),
                            [st EXCEPT !.color[v] = "in_progress"])
         IN  IF s1.cycle THEN s1
             ELSE [s1 EXCEPT !.color[v] = "done", !.order = <<v>> \o @]

VisitAll(E, vs, st) ==
    IF vs = <<>> THEN st ELSE VisitAll(E, Tail(vs), Visit(E, Head(vs), st))

topological_sort(ns, E) ==
    LET st == VisitAll(E, [i \in 1..Len(ns) |-> Len(ns) + 1 - i],
                       [color |-> [i \in 1..Len(ns) |-> "unvisited"],
                        order |-> <<>>, cycle |-> FALSE])
    IN  IF st.cycle THEN [ok |-> FALSE, order |-> <<>>]
        ELSE [ok |-> TRUE, order |-> st.order]

\* an edge out of a root takes the kinds the root declares for the child's name;
\* every other edge is reached transitively and is Regular
set_resolved_kind(ns, E, rdm) ==
    [e \in E |->
        IF ns[e[1]].name \in DOMAIN rdm /\ ns[e[2]].name \in DOMAIN rdm[ns[e[1]].name]
        THEN rdm[ns[e[1]].name][ns[e[2]].name]
        ELSE <<"Regular">>]

show_version_on_duplicates(ns) ==
    {i \in 1..Len(ns) :
        \E j \in 1..Len(ns) : ns[j].name = ns[i].name /\ ns[j].ver # ns[i].ver}

-----------------------------------------------------------------------------
(* main.rs *)

\* Path::file_name: the last component, None (NoField) for an empty path or ".."
FileName(path) ==
    IF path = <<>> \/ path[Len(path)] = ".." THEN NoField ELSE path[Len(path)]

is_cargo_toml(path) ==
    IF FileName(path) = NoField THEN "The manifest path is not a valid file"
    ELSE IF FileName(path) # "Cargo.toml"
         THEN "The manifest-path must be a path to a Cargo.toml file"
    ELSE ""

-----------------------------------------------------------------------------
(* The state machine *)

\* `last` before any call: no name, no id, no dependencies array
NoPackage ==
    [name |-> NoField, ver |-> NoField, id |-> 0,
     dependencies |-> [present |-> FALSE, len |-> 0]]

\* the configuration without any flag given
DefaultConfig ==
    [manifest_path |-> <<"Cargo.toml">>,
     regular_deps |-> TRUE, build_deps |-> FALSE,
     dev_deps |-> FALSE, optional_deps |-> FALSE,
     filter |-> [some |-> FALSE, names |-> {}],
     include_vers |-> FALSE, dot_file |-> FALSE]

\* the whole pipeline is explored from the default configuration and from every
\* configuration that differs from it in one option
PipelineConfigs ==
    {c \in Configs :
        Cardinality({f \in DOMAIN DefaultConfig : c[f] # DefaultConfig[f]}) <= 1}

Init ==
    /\ pc = "start"
    /\ err = ""
    /\ cfg \in PipelineConfigs
    /\ manifest_toml = NoManifest
    /\ root_crates = <<>>
    /\ root_deps_map = <<>>
    /\ nodes = <<>>
    /\ edges = {}
    /\ last = NoPackage
    /\ npkgs = 0
    /\ entries = {}
    /\ order = <<>>
    /\ kinds = <<>>
    /\ duplicate = {}
    /\ log = <<>>
    /\ out = [created |-> FALSE, rendered |-> FALSE]

Fail(e) == pc' = "err" /\ err' = e

\* execute, line 77
IsCargoToml ==
    /\ pc = "start"
    /\ IF is_cargo_toml(cfg.manifest_path) # ""
       THEN Fail(is_cargo_toml(cfg.manifest_path))
       ELSE pc' = "find_manifest" /\ err' = err
    /\ UNCHANGED <<cfg, manifest_toml, root_crates, root_deps_map, nodes, edges,
                   last, npkgs, entries, order, kinds, duplicate, log, out>>

\* execute, lines 78-83: both files are searched for through the parent directories
FindManifestFile ==
    /\ pc \in {"find_manifest", "find_lock"}
    /\ \E found \in BOOLEAN :
          IF ~found THEN Fail("io: file not found")
          ELSE /\ pc' = (IF pc = "find_manifest" THEN "find_lock" ELSE "config")
               /\ err' = err
    /\ UNCHANGED <<cfg, manifest_toml, root_crates, root_deps_map, nodes, edges,
                   last, npkgs, entries, order, kinds, duplicate, log, out>>

\* WithConfig creating the output file where dot_file is taken from cfg
WithConfigCreatingFile ==
    /\ pc = "config"
    /\ pc' = "graph"
    /\ out' = [out EXCEPT !.created = cfg.dot_file]
    /\ UNCHANGED <<err, cfg, manifest_toml, root_crates, root_deps_map, nodes, edges,
                   last, npkgs, entries, order, kinds, duplicate, log>>

\* execute, lines 86-87: dot_file is cloned and the Project made; with_config
\* always returns Ok
WithConfig ==
    /\ pc = "config"
    /\ pc' = "graph"
    /\ UNCHANGED <<err, cfg, manifest_toml, root_crates, root_deps_map, nodes, edges,
                   last, npkgs, entries, order, kinds, duplicate, log, out>>

\* Project::graph, line 26
ParseRootDeps ==
    /\ pc = "graph"
    /\ \E m \in Manifests :
          LET r == parse_root_deps(cfg, m)
          IN  /\ manifest_toml' = m
              /\ root_crates' = r.root_crates
              /\ root_deps_map' = r.root_deps_map
              /\ IF r.error # "" THEN Fail(r.error)
                 ELSE pc' = "parse_lock" /\ err' = err
    /\ UNCHANGED <<cfg, nodes, edges, last, npkgs, entries, order, kinds,
                   duplicate, log, out>>

\* parse_lock_file, lines 140-143; parse_root_deps's manifest_toml is gone by now
LoadLockFile ==
    /\ pc = "parse_lock"
    /\ \E loaded \in BOOLEAN :
          IF ~loaded THEN Fail("io: lock file")
          ELSE pc' = "root_entry" /\ err' = err
    /\ manifest_toml' = NoManifest
    /\ nodes' = <<>>
    /\ edges' = {}
    /\ UNCHANGED <<cfg, root_crates, root_deps_map, last, npkgs, entries, order,
                   kinds, duplicate, log, out>>

\* one call of parse_package from parse_lock_file, and what its `?` does
Walk(pkg, next) ==
    LET r == parse_package([nodes |-> nodes, edges |-> edges], pkg, root_crates,
                           root_deps_map, cfg.filter)
    IN  /\ nodes' = r.nodes
        /\ edges' = r.edges
        /\ last' = [name |-> pkg.name, ver |-> pkg.version, id |-> r.id,
                    dependencies |-> [present |-> pkg.dependencies.present,
                                      len |-> Len(pkg.dependencies.items)]]
        /\ entries' = IF pkg.name = NoField THEN entries
                      ELSE entries \cup {<<pkg.name, pkg.version>>}
        /\ IF r.result = "panic" THEN pc' = "panic" /\ err' = "panic: lock entry"
           ELSE IF r.result = "mismatch"
                THEN Fail("Version of root crate in Cargo.lock does not match")
           ELSE pc' = next /\ err' = err

\* parse_lock_file, lines 145-147
ParseRootEntry ==
    /\ pc = "root_entry"
    /\ \/ /\ pc' = "packages"
          /\ UNCHANGED <<err, nodes, edges, last, entries>>
       \/ \E pkg \in PkgEntries : Walk(pkg, "packages")
    /\ UNCHANGED <<cfg, manifest_toml, root_crates, root_deps_map, npkgs, order,
                   kinds, duplicate, log, out>>

\* parse_lock_file, lines 149-153
ParsePackage ==
    /\ pc = "packages"
    /\ npkgs < MaxPkgs
    /\ npkgs' = npkgs + 1
    /\ \E pkg \in PkgEntries : Walk(pkg, "packages")
    /\ UNCHANGED <<cfg, manifest_toml, root_crates, root_deps_map, order, kinds,
                   duplicate, log, out>>

\* RootMissing with the check of lines 156-163 left out
RootMissingNever == FALSE

RootMissing ==
    \E k \in 1..Len(root_crates) :
        Find(nodes, root_crates[k].name, root_crates[k].ver) = 0

\* parse_lock_file, lines 155-165
CheckRoots ==
    /\ pc = "packages"
    /\ IF RootMissing
       THEN Fail("Missing 'name' and 'version' in lock file") /\ log' = log
       ELSE pc' = "sort" /\ err' = err /\ log' = Append(log, "walk")
    /\ UNCHANGED <<cfg, manifest_toml, root_crates, root_deps_map, nodes, edges,
                   last, npkgs, entries, order, kinds, duplicate, out>>

\* TopologicalSort without the `?`: a failed sort is not returned
TopologicalSortUnchecked ==
    /\ pc = "sort"
    /\ LET r == topological_sort(nodes, edges)
       IN  /\ pc' = "kind" /\ err' = err
           /\ order' = r.order
           /\ log' = IF r.ok THEN Append(log, "sort") ELSE log
    /\ UNCHANGED <<cfg, manifest_toml, root_crates, root_deps_map, nodes, edges,
                   last, npkgs, entries, kinds, duplicate, out>>

\* Project::graph, line 31
TopologicalSort ==
    /\ pc = "sort"
    /\ LET r == topological_sort(nodes, edges)
       IN  IF ~r.ok
           THEN Fail("cycle") /\ order' = order /\ log' = log
           ELSE /\ pc' = "kind" /\ err' = err
                /\ order' = r.order
                /\ log' = Append(log, "sort")
    /\ UNCHANGED <<cfg, manifest_toml, root_crates, root_deps_map, nodes, edges,
                   last, npkgs, entries, kinds, duplicate, out>>

\* Project::graph, line 36: set_resolved_kind returns a CliResult, and its `?`
\* returns whatever error it may give
SetResolvedKind ==
    /\ pc = "kind"
    /\ \E ok \in BOOLEAN :
          IF ok
          THEN /\ kinds' = set_resolved_kind(nodes, edges, root_deps_map)
               /\ pc' = "dups" /\ err' = err
               /\ log' = Append(log, "kind")
          ELSE Fail("set_resolved_kind") /\ UNCHANGED <<kinds, log>>
    /\ UNCHANGED <<cfg, manifest_toml, root_crates, root_deps_map, nodes,
                   edges, last, npkgs, entries, order, duplicate, out>>

\* ShowVersionOnDuplicates without the test of cfg.include_vers
ShowVersionAlways ==
    /\ pc = "dups"
    /\ duplicate' = show_version_on_duplicates(nodes)
    /\ log' = Append(log, "dups")
    /\ pc' = "render"
    /\ UNCHANGED <<err, cfg, manifest_toml, root_crates, root_deps_map, nodes,
                   edges, last, npkgs, entries, order, kinds, out>>

\* Project::graph, lines 38-42
ShowVersionOnDuplicates ==
    /\ pc = "dups"
    /\ IF ~cfg.include_vers
       THEN /\ duplicate' = show_version_on_duplicates(nodes)
            /\ log' = Append(log, "dups")
       ELSE UNCHANGED <<duplicate, log>>
    /\ pc' = "render"
    /\ UNCHANGED <<err, cfg, manifest_toml, root_crates, root_deps_map, nodes,
                   edges, last, npkgs, entries, order, kinds, out>>

\* execute, lines 91-102
RenderTo ==
    /\ pc = "render"
    /\ \E io \in {"ok", "create fails", "write fails"} :
          /\ (io = "create fails") => cfg.dot_file
          /\ IF io = "create fails"
             THEN /\ pc' = "panic" /\ err' = "panic: Failed to create file"
                  /\ UNCHANGED <<out, log>>
             ELSE /\ out' = [created |-> cfg.dot_file, rendered |-> TRUE]
                  /\ log' = Append(log, "render")
                  /\ IF io = "ok" THEN pc' = "done" /\ err' = err
                     ELSE Fail("io: render")
    /\ UNCHANGED <<cfg, manifest_toml, root_crates, root_deps_map, nodes, edges,
                   last, npkgs, entries, order, kinds, duplicate>>

Next ==
    \/ IsCargoToml
    \/ FindManifestFile
    \/ WithConfig
    \/ ParseRootDeps
    \/ LoadLockFile
    \/ ParseRootEntry
    \/ ParsePackage
    \/ CheckRoots
    \/ TopologicalSort
    \/ SetResolvedKind
    \/ ShowVersionOnDuplicates
    \/ RenderTo

Spec == Init /\ [][Next]_vars

\* parse_root_deps alone, under every configuration that reaches Project::graph
InitRootDeps ==
    /\ pc = "graph"
    /\ err = ""
    /\ cfg \in {c \in Configs : is_cargo_toml(c.manifest_path) = ""}
    /\ manifest_toml = NoManifest
    /\ root_crates = <<>>
    /\ root_deps_map = <<>>
    /\ nodes = <<>>
    /\ edges = {}
    /\ last = NoPackage
    /\ npkgs = 0
    /\ entries = {}
    /\ order = <<>>
    /\ kinds = <<>>
    /\ duplicate = {}
    /\ log = <<>>
    /\ out = [created |-> FALSE, rendered |-> FALSE]

NextRootDeps == ParseRootDeps

SpecRootDeps == InitRootDeps /\ [][NextRootDeps]_vars

-----------------------------------------------------------------------------
(* Properties *)

InLog(stage) == \E i \in 1..Len(log) : log[i] = stage

IsPrefix(a, b) == Len(a) <= Len(b) /\ \A i \in 1..Len(a) : a[i] = b[i]

\* the ids of the nodes of ns with this (name, version)
NodesOf(ns, name, ver) ==
    {i \in 1..Len(ns) : ns[i].name = name /\ ns[i].ver = ver}

\* Project::graph has returned Ok(dg) to execute
GraphReturned ==
    \/ pc \in {"render", "done"}
    \/ err \in {"io: render", "panic: Failed to create file"}

MissingError == "Missing 'name' and 'version' in lock file"

\* the transitive closure of a set of edges
RECURSIVE Closure(_)
Closure(R) ==
    LET S == R \cup {<<p[1][1], p[2][2]>> : p \in {q \in R \X R : q[1][2] = q[2][1]}}
    IN  IF S = R THEN R ELSE Closure(S)

HasCycle(E) == \E p \in Closure(E) : p[1] = p[2]

Position(v) == CHOOSE i \in 1..Len(order) : order[i] = v

\* `order` holds every node once, and every parent before its children
OrderComplete ==
    /\ Len(order) = Len(nodes)
    /\ \A v \in 1..Len(nodes) : \E i \in 1..Len(order) : order[i] = v
    /\ \A e \in edges : Position(e[1]) < Position(e[2])

\* C1: when Project::graph succeeds, every root crate of the manifest is exactly
\* one node with the manifest's version, the lock file carries an entry with the
\* root's (name, version), and carries no entry with the root's name and another
\* version (otherwise graph construction would have failed).
C1_RootEntryRequired ==
    GraphReturned =>
        \A k \in 1..Len(root_crates) :
            /\ Cardinality(NodesOf(nodes, root_crates[k].name, root_crates[k].ver)) = 1
            /\ <<root_crates[k].name, root_crates[k].ver>> \in entries
            /\ \A e \in entries :
                  e[1] = root_crates[k].name => e[2] = root_crates[k].ver

\* C2: throughout the lock-file walk no two nodes have the same (name, version);
\* a node keeps its id; and a parse_package call whose (name, version) was in the
\* graph already gets from find_or_add the id that pair had, and adds no node
\* for it.
C2_FindOrAddIdempotent ==
    [][/\ \A i, j \in 1..Len(nodes') : nodes'[i] = nodes'[j] => i = j
       /\ \A i \in 1..Len(nodes) : i <= Len(nodes') /\ nodes'[i] = nodes[i]
       /\ (last'.id # 0 /\ Find(nodes, last'.name, last'.ver) # 0)
            => last'.id = Find(nodes, last'.name, last'.ver)
       /\ last'.id # 0 => NodesOf(nodes', last'.name, last'.ver) = {last'.id}]_vars

\* a package whose node find_or_add was asked for a second time, as a child
C2_Witness ==
    /\ last.id # 0
    /\ \E e \in edges : e[2] = last.id
    /\ Len(nodes) >= 2

\* C3: once the walk is over and topological_sort has run, a cycle among the edges
\* means the invocation ended with the cycle error and that set_resolved_kind,
\* show_version_on_duplicates and rendering did not run; and a sort that succeeded
\* produced an order of all the nodes with every parent before its children.
C3_CycleFailsSort ==
    /\ (InLog("walk") /\ pc # "sort" /\ HasCycle(edges)) =>
          /\ pc = "err" /\ err = "cycle"
          /\ log = <<"walk">>
          /\ duplicate = {}
          /\ ~out.created /\ ~out.rendered
    /\ InLog("sort") => OrderComplete

\* the cycle A -> B, B -> A, and the sort has failed on it
C3_Witness ==
    /\ pc = "err" /\ err = "cycle"
    /\ \E e \in edges : e[1] # e[2] /\ <<e[2], e[1]>> \in edges

\* C4 as stated: the stages complete in the fixed order walk, sort, kind,
\* duplicates, render, and render_to runs only after all four others have.
C4_RenderAfterAllStages ==
    /\ IsPrefix(log, <<"walk", "sort", "kind", "dups", "render">>)
    /\ InLog("render") =>
          InLog("walk") /\ InLog("sort") /\ InLog("kind") /\ InLog("dups")

\* C4 as amended: the stages complete in the order walk, sort, kind, duplicates,
\* render, where show_version_on_duplicates is left out when include_vers is set;
\* each stage runs only after the one before it has succeeded, and output is
\* written only by the render stage.
C4_StageOrder ==
    /\ IsPrefix(log, IF cfg.include_vers
                     THEN <<"walk", "sort", "kind", "render">>
                     ELSE <<"walk", "sort", "kind", "dups", "render">>)
    /\ InLog("kind") => OrderComplete
    /\ (out.rendered \/ out.created) => InLog("render")
    /\ pc = "done" => InLog("render")

C4_Witness ==
    /\ pc = "done"
    /\ log = <<"walk", "sort", "kind", "dups", "render">>
    /\ edges # {}

\* C5: an error returned by the manifest check, by file discovery or by
\* Project::graph leaves the output file uncreated and render_to uncalled.
C5_NoPartialResult ==
    (pc = "err" /\ err # "io: render") =>
        /\ ~out.created
        /\ ~out.rendered
        /\ ~InLog("render")

\* a fatal error of Project::graph with an output file configured
C5_Witness ==
    /\ pc = "err" /\ err = "cycle"
    /\ cfg.dot_file

RootDepKinds == root_deps_map[manifest_toml.name]

KindIn(d, kind) ==
    d \in DOMAIN RootDepKinds
        /\ \E i \in 1..Len(RootDepKinds[d]) : RootDepKinds[d][i] = kind

\* parse_root_deps has just returned Ok for the manifest in manifest_toml
RootDepsParsed == pc = "parse_lock" /\ manifest_toml.loaded

\* C6 as stated: with optional-deps off, a dependency whose table says
\* optional = true has no entry in the root's declared-kinds map, whatever the
\* other flags and tables.
C6_OptionalExcluded ==
    (RootDepsParsed /\ ~cfg.optional_deps) =>
        \A d \in manifest_toml.dependencies.optional : d \notin DOMAIN RootDepKinds

\* C6 as amended: with optional-deps off, a dependency whose table says
\* optional = true gets no Optional and no Regular kind, and has an entry in the
\* root's declared-kinds map exactly when [build-dependencies] lists it and
\* build-deps is on, or [dev-dependencies] lists it and dev-deps is on.
C6_OptionalNotDeclared ==
    (RootDepsParsed /\ ~cfg.optional_deps) =>
        \A d \in manifest_toml.dependencies.optional :
            /\ ~KindIn(d, "Optional") /\ ~KindIn(d, "Regular")
            /\ d \in DOMAIN RootDepKinds <=>
                  \/ cfg.build_deps /\ d \in manifest_toml.build_dependencies.entries
                  \/ cfg.dev_deps /\ d \in manifest_toml.dev_dependencies.entries

\* an optional dependency left out of the map while another kind flag is on
C6_Witness ==
    /\ RootDepsParsed /\ ~cfg.optional_deps /\ cfg.dev_deps /\ cfg.regular_deps
    /\ "b" \in manifest_toml.dependencies.optional
    /\ "b" \notin DOMAIN RootDepKinds
    /\ "c" \in DOMAIN RootDepKinds

\* C7: with a filter configured, every node's name is in the filter set and both
\* ends of every edge are nodes whose names are in the filter set, in every state
\* of the walk and after it.
C7_FilterExcludes ==
    cfg.filter.some =>
        /\ \A i \in 1..Len(nodes) : nodes[i].name \in cfg.filter.names
        /\ \A e \in edges :
              /\ e[1] \in 1..Len(nodes) /\ e[2] \in 1..Len(nodes)
              /\ nodes[e[1]].name \in cfg.filter.names
              /\ nodes[e[2]].name \in cfg.filter.names

\* a filtered run that went through, though the lock file held a crate that the
\* filter does not name
C7_Witness ==
    /\ cfg.filter.some
    /\ pc = "done"
    /\ \E e \in entries : e[1] \notin cfg.filter.names

\* a step that is one parse_package call
WalkStep == (pc = "root_entry" /\ last' # NoPackage) \/ npkgs' = npkgs + 1

\* a table the manifest lacks contributes no kind
AbsentTablesEmpty ==
    (manifest_toml.loaded /\ manifest_toml.package = "ok") =>
        /\ pc = "parse_lock" /\ err = ""
        /\ \A d \in Names :
              /\ ~manifest_toml.dependencies.present =>
                    ~KindIn(d, "Regular") /\ ~KindIn(d, "Optional")
              /\ ~manifest_toml.build_dependencies.present => ~KindIn(d, "Build")
              /\ ~manifest_toml.dev_dependencies.present => ~KindIn(d, "Dev")

\* C8: a manifest with a valid [package] makes parse_root_deps succeed whichever
\* of the three tables it lacks, an absent table contributing no kind; and a lock
\* entry without a dependencies array (one the filter keeps) gets its node and no
\* edge, and fails only if it is a root crate with the wrong version.
C8_MissingTablesAreEmpty ==
    [][/\ AbsentTablesEmpty'
       /\ (WalkStep /\ last'.name # NoField /\ ~last'.dependencies.present
              /\ ~Filtered(cfg.filter, last'.name)) =>
            /\ edges' = edges
            /\ last'.id # 0
            /\ NodesOf(nodes', last'.name, last'.ver) = {last'.id}
            /\ pc' # "panic"
            /\ pc' = "err" =>
                  VersionMismatch(root_deps_map, root_crates, last'.name, last'.ver)]_vars

\* an entry without a dependencies array has been walked, under a manifest that
\* declared nothing
C8_Witness ==
    /\ pc = "packages"
    /\ last.id # 0 /\ ~last.dependencies.present
    /\ edges = {}
    /\ DOMAIN root_deps_map[RootName] = {}

\* C9: every edge whose parent's name is a key of the root-deps map leads to a
\* child whose name has an entry, with a non-empty kind list, in that root's
\* declared-kinds map.
C9_RootEdgesDeclared ==
    \A e \in edges :
        nodes[e[1]].name \in DOMAIN root_deps_map =>
            /\ nodes[e[2]].name \in DOMAIN root_deps_map[nodes[e[1]].name]
            /\ root_deps_map[nodes[e[1]].name][nodes[e[2]].name] # <<>>

\* the root's entry carried a dependency, no filter is configured, and no edge was
\* added for it
C9_Witness ==
    /\ pc = "packages" /\ npkgs = 0
    /\ ~cfg.filter.some
    /\ last.name = RootName /\ last.id # 0
    /\ last.dependencies.len > 0
    /\ edges = {}

RootFilteredOut ==
    /\ root_crates # <<>>
    /\ cfg.filter.some
    /\ \E k \in 1..Len(root_crates) : root_crates[k].name \notin cfg.filter.names

====
